---- MODULE Spec2Model ----
(***************************************************************************)
(* CitiBike 2022 dashboards: dashboard.py and dashboard_part2.py.          *)
(*                                                                         *)
(* The model follows one run of a page script.  The file system the script *)
(* reads is fixed when the run starts (fs, files, csv, table).             *)
(*   - dashboard.py: slider, column 1 (compute_top20_stations over the     *)
(*     monthly trip CSVs, chunk by chunk), column 2 (load_daily), map.     *)
(*   - dashboard_part2.py: the page picked in the sidebar, with            *)
(*     load_daily_small and load_stations_small.                           *)
(* Temperatures are fixed-point: a reading of v degrees is the integer     *)
(* 20*v, so that "/ 10.0" and the mean of two readings are exact.          *)
(***************************************************************************)
EXTENDS Integers, Sequences, FiniteSets, TLC

VARIABLES
  app,          \* which script runs: "dashboard" | "part2" | "loader"
  pc,           \* position in the script
  page,         \* dashboard_part2.py: the sidebar selection
  show_top_n,   \* the "Top N stations" slider (top_n in dashboard_part2.py)
  fs,           \* source location -> "missing" | "unreadable" | "ok"
  rendered,     \* what the page has rendered so far (notices and charts)
  calls,        \* the loaders that have been invoked
  exception,    \* the exception that ended the run and the section it escaped from
  files,        \* sorted(glob(DATA_DIR/*.csv)): the trip CSVs, in order
  chunksize,    \* rows per chunk of read_csv
  fi,           \* index in files of the file being read
  pos,          \* rows of files[fi] already consumed
  nchunks,      \* chunks tallied into counts so far
  counts,       \* the running dict, as <<name, count>> pairs in insertion order
  ranking,      \* pd.Series(counts).sort_values(ascending=False)
  stations,     \* what compute_top20_stations / load_stations_small returned
  top_stations, \* stations.head(N), as charted
  table,        \* content of top_stations_sample.csv
  csv,          \* content of the daily CSV
  df,           \* what the daily loader returned
  unit          \* how the daily CSV's temperatures were recorded

vars == <<app, pc, page, show_top_n, fs, rendered, calls, exception, files,
          chunksize, fi, pos, nchunks, counts, ranking, stations, top_stations,
          table, csv, df, unit>>

pageVars == <<app, page, fs, files, chunksize, table, csv, unit>>
topVars  == <<fi, pos, nchunks, counts, ranking, stations, top_stations>>

-----------------------------------------------------------------------------
(* Bounds of the model *)

MaxRows == 3
MaxFiles == 2
MaxChunk == 2
BigStations == 22

(* Program constants *)

CHUNKSIZE == 200000
HEAD == 20
THRESHOLD == 200

-----------------------------------------------------------------------------
(* Sequences, and the dict of line 40 *)

Min(a, b) == IF a < b THEN a ELSE b

Range(s) == {s[i] : i \in DOMAIN s}

SeqsUpTo(S, n) == UNION {[1..m -> S] : m \in 0..n}

\* DataFrame.head(n) / Series.head(n)
head(s, n) == SubSeq(s, 1, Min(n, Len(s)))

Keys(d) == {d[i][1] : i \in DOMAIN d}

\* counts.get(k, dflt)
Get(d, k, dflt) ==
  IF k \in Keys(d) THEN d[CHOOSE i \in DOMAIN d : d[i][1] = k][2] ELSE dflt

\* counts[k] = v : a new key goes last, an old key keeps its place
Put(d, k, v) ==
  IF k \in Keys(d)
    THEN [i \in DOMAIN d |-> IF d[i][1] = k THEN <<k, v>> ELSE d[i]]
    ELSE Append(d, <<k, v>>)

AsFun(d) == [k \in Keys(d) |-> Get(d, k, 0)]

\* A missing start_station_name (NaN)
Null == 0

StationNames == {1, 2}

\* Every order a sort by value can leave the entries of f in.  The sorts of
\* lines 44 and 48 use the default kind (quicksort), which is not stable: the
\* order among equal values is any.
RECURSIVE Sorted(_, _)
Sorted(f, ascending) ==
  IF DOMAIN f = {} THEN {<<>>}
  ELSE LET first == {k \in DOMAIN f : \A j \in DOMAIN f :
                        IF ascending THEN f[k] <= f[j] ELSE f[j] <= f[k]}
       IN  UNION {{<< <<k, f[k]>> >> \o t :
                     t \in Sorted([j \in DOMAIN f \ {k} |-> f[j]], ascending)} :
                  k \in first}

CountOf(rows, k) == Cardinality({i \in DOMAIN rows : rows[i] = k})

\* chunk["start_station_name"].value_counts(dropna=True)
value_counts(chunk) ==
  Sorted([k \in Range(chunk) \ {Null} |-> CountOf(chunk, k)], FALSE)

RECURSIVE MergeOverwrite(_, _)
MergeOverwrite(d, vc) ==
  IF vc = <<>> THEN d
  ELSE MergeOverwrite(Put(d, Head(vc)[1], Head(vc)[2]), Tail(vc))

\* for k, v in vc.items(): counts[k] = counts.get(k, 0) + int(v)
RECURSIVE Merge(_, _)
Merge(d, vc) ==
  IF vc = <<>> THEN d
  ELSE Merge(Put(d, Head(vc)[1], Get(d, Head(vc)[1], 0) + Head(vc)[2]), Tail(vc))

sort_values_ascending(d) == Sorted(AsFun(d), TRUE)

\* pd.Series(counts, name="rides").sort_values(ascending=False)
sort_values(d) == Sorted(AsFun(d), FALSE)

-----------------------------------------------------------------------------
(* The inputs *)

Sources == {"DATA_DIR", "DAILY_FILE", "KEPLER_HTML", "DAILY_SMALL", "STATIONS_SMALL"}

\* A location is missing, is there but cannot be read, or is there and
\* readable.  Of a folder that cannot be listed glob returns no file.
Status == {"missing", "unreadable", "ok"}

\* A trip CSV: readable with the column, readable without it, or not readable
OkFile(rows) == [kind |-> "ok", rows |-> rows]
NoColFile == [kind |-> "nocol", rows |-> <<>>]
UnreadableFile == [kind |-> "unreadable", rows |-> <<>>]

FilesUpTo(n) ==
  {OkFile(r) : r \in SeqsUpTo(StationNames \cup {Null}, n)}
    \cup {NoColFile, UnreadableFile}

\* At most nf trip CSVs holding at most nr rows between them
RECURSIVE Dirs(_, _)
Dirs(nf, nr) ==
  IF nf = 0 THEN {<<>>}
  ELSE {<<>>} \cup
       UNION {{<<f>> \o rest : rest \in Dirs(nf - 1, nr - Len(f.rows))} :
              f \in FilesUpTo(nr)}

SmallDirs == Dirs(MaxFiles, MaxRows)

\* A month in which station s starts s rides, s = 1..n
RECURSIVE BigRows(_)
BigRows(n) == IF n = 0 THEN <<>> ELSE BigRows(n - 1) \o [i \in 1..n |-> n]

SliderValues == {10 + 5 * i : i \in 0..4}

NoDaily == [cols |-> {}, rows |-> <<>>]

Exc(type, at) == [type |-> type, at |-> at]
NoException == Exc("", "")

TopIdle ==
  /\ fi = 0 /\ pos = 0 /\ nchunks = 0
  /\ counts = <<>> /\ ranking = <<>> /\ stations = <<>> /\ top_stations = <<>>

RunIdle ==
  /\ show_top_n = 0 /\ rendered = {} /\ calls = {} /\ exception = NoException
  /\ df = NoDaily
  /\ TopIdle

\* dashboard.py, column 1 alone, over every small set of trip CSVs and a few
\* large ones
InitTop ==
  /\ app = "dashboard" /\ pc = "slider" /\ page = ""
  /\ table = <<>> /\ csv = NoDaily /\ unit = "whole"
  /\ \/ /\ fs \in {[s \in Sources |-> IF s = "DATA_DIR" THEN d ELSE "missing"] :
                      d \in {"missing", "unreadable"}}
        /\ files = <<>> /\ chunksize = CHUNKSIZE
     \/ /\ fs = [s \in Sources |-> IF s = "DATA_DIR" THEN "ok" ELSE "missing"]
        /\ \/ /\ files \in SmallDirs
              /\ chunksize \in 1..MaxChunk
           \/ /\ \E n \in (HEAD - 1)..BigStations : files = <<OkFile(BigRows(n))>>
              /\ chunksize = CHUNKSIZE
  /\ RunIdle

-----------------------------------------------------------------------------
(* dashboard.py *)

\* An exception no handler catches ends the script run
Raise(type, at) ==
  /\ pc' = "crashed"
  /\ exception' = Exc(type, at)

\* line 56
Slider ==
  /\ app = "dashboard" /\ pc = "slider"
  /\ show_top_n' \in SliderValues
  /\ pc' = "col1"
  /\ UNCHANGED <<pageVars, topVars, rendered, calls, exception, df>>

ExistsUnchecked(s) == TRUE

\* Path.exists()
Exists(s) == fs[s] # "missing"

\* lines 61-66: the folder is missing, or compute_top20_stations is entered
\* (lines 39-41)
Col1 ==
  /\ app = "dashboard" /\ pc = "col1"
  /\ IF ~Exists("DATA_DIR")
       THEN /\ rendered' = rendered \cup {<<"info", "DATA_DIR">>}
            /\ pc' = "col2"
            /\ UNCHANGED <<calls, topVars>>
       ELSE /\ calls' = calls \cup {"compute_top20_stations"}
            /\ counts' = <<>>
            /\ fi' = 1 /\ pos' = 0
            /\ pc' = "open"
            /\ UNCHANGED <<rendered, nchunks, ranking, stations, top_stations>>
  /\ UNCHANGED <<pageVars, show_top_n, exception, df>>

NextFileUnchecked ==
  /\ pc = "open"
  /\ IF fi > Len(files)
       THEN pc' = "sort" /\ UNCHANGED exception
       ELSE CASE files[fi].kind = "unreadable" -> Raise("PermissionError", "DATA_DIR")
              [] OTHER -> pc' = "chunk" /\ UNCHANGED exception
  /\ pos' = 0
  /\ UNCHANGED <<pageVars, show_top_n, rendered, calls, df,
                 fi, nchunks, counts, ranking, stations, top_stations>>

\* line 42-43: the next file, if any, is opened; read_csv checks usecols
\* against the header when it opens the file
NextFile ==
  /\ pc = "open"
  /\ IF fi > Len(files)
       THEN pc' = "sort" /\ UNCHANGED exception
       ELSE CASE files[fi].kind = "unreadable" -> Raise("PermissionError", "DATA_DIR")
              [] files[fi].kind = "nocol" -> Raise("ValueError", "DATA_DIR")
              [] OTHER -> pc' = "chunk" /\ UNCHANGED exception
  /\ pos' = 0
  /\ UNCHANGED <<pageVars, show_top_n, rendered, calls, df,
                 fi, nchunks, counts, ranking, stations, top_stations>>

\* lines 43-46: one chunk is read and tallied, or the file is exhausted
ReadChunk ==
  /\ pc = "chunk"
  /\ LET rows == files[fi].rows
         chunk == SubSeq(rows, pos + 1, Min(pos + chunksize, Len(rows)))
     IN  IF pos >= Len(rows)
           THEN /\ fi' = fi + 1
                /\ pc' = "open"
                /\ UNCHANGED <<pos, nchunks, counts>>
           ELSE /\ \E vc \in value_counts(chunk) : counts' = Merge(counts, vc)
                /\ pos' = pos + Len(chunk)
                /\ nchunks' = nchunks + 1
                /\ UNCHANGED <<fi, pc>>
  /\ UNCHANGED <<pageVars, show_top_n, rendered, calls, exception, df,
                 ranking, stations, top_stations>>

\* lines 47-52
Finish ==
  /\ pc = "sort"
  /\ ranking' \in sort_values(counts)
  /\ stations' = head(ranking', HEAD)
  /\ pc' = "show"
  /\ UNCHANGED <<pageVars, show_top_n, rendered, calls, exception, df,
                 fi, pos, nchunks, counts, top_stations>>

\* lines 66-81
ShowTop ==
  /\ pc = "show"
  /\ top_stations' = head(stations, show_top_n)
  /\ rendered' = rendered \cup {<<"chart", "DATA_DIR">>}
  /\ pc' = "col2"
  /\ UNCHANGED <<pageVars, show_top_n, calls, exception, df,
                 fi, pos, nchunks, counts, ranking, stations>>

NextTop == Slider \/ Col1 \/ NextFile \/ ReadChunk \/ Finish \/ ShowTop

SpecTop == InitTop /\ [][NextTop]_vars

-----------------------------------------------------------------------------
(* The daily series *)

MaxDays == 2

\* A cell is <<>> (NaN) or <<x>>, x the reading times 20
NaN == <<>>
Cell(v) == <<20 * v>>
IsNaN(c) == c = <<>>

TempCols == {"TMAX", "TMIN", "TMEAN"}

\* Readings a CSV may hold: Celsius or tenths of it, around the threshold
Readings == {0 - 250, 50, THRESHOLD, 210}
Supplied == {7}

CellsOf(cols, c, vals) ==
  IF c \in cols THEN {NaN} \cup {Cell(v) : v \in vals} ELSE {NaN}

\* The rows a CSV with the columns cols may hold; idx is the index label
\* read_csv gives the row
RowsOf(cols, i) ==
  {[idx |-> i, date |-> d, TMAX |-> a, TMIN |-> b, TMEAN |-> m] :
     d \in 1..MaxDays, a \in CellsOf(cols, "TMAX", Readings),
     b \in CellsOf(cols, "TMIN", Readings), m \in CellsOf(cols, "TMEAN", Supplied)}

\* The frames of at most n rows
RECURSIVE FramesOf(_, _)
FramesOf(cols, n) ==
  IF n = 0 THEN {<<>>}
  ELSE LET shorter == FramesOf(cols, n - 1)
       IN  shorter \cup
           UNION {{Append(rs, r) : r \in RowsOf(cols, n)} :
                  rs \in {x \in shorter : Len(x) = n - 1}}

\* The daily CSVs of at most n rows, over any of the temperature columns
DailyCsvs(n) ==
  UNION {{[cols |-> cols, rows |-> rs] : rs \in FramesOf(cols, n)} :
         cols \in SUBSET TempCols}

Abs(x) == IF x < 0 THEN 0 - x ELSE x

\* Series.max(): NaN are skipped, and NaN is the maximum of nothing
MaxOf(cells) ==
  LET xs == {c[1] : c \in {k \in cells : ~IsNaN(k)}}
  IN  IF xs = {} THEN NaN ELSE <<CHOOSE x \in xs : \A y \in xs : y <= x>>

\* df[c].abs().max()
AbsMax(rows, c) ==
  MaxOf({IF IsNaN(rows[i][c]) THEN NaN ELSE <<Abs(rows[i][c][1])>> : i \in DOMAIN rows})

\* m > 200: a comparison with NaN is False
Exceeds(m) == ~IsNaN(m) /\ m[1] > 20 * THRESHOLD

\* x / 10.0
Div10(c) == IF IsNaN(c) THEN NaN ELSE <<c[1] \div 10>>

\* df[["TMAX","TMIN"]].mean(axis=1), one row: NaN are skipped, and the mean of
\* nothing is NaN
RowMean(r) ==
  CASE IsNaN(r.TMAX) /\ IsNaN(r.TMIN) -> NaN
    [] IsNaN(r.TMAX) -> r.TMIN
    [] IsNaN(r.TMIN) -> r.TMAX
    [] OTHER -> <<(r.TMAX[1] + r.TMIN[1]) \div 2>>

\* df.sort_values("date"): any order by date (the default sort is not stable)
sort_values_date(rows) ==
  {[i \in DOMAIN rows |-> rows[s[i][1]]] :
     s \in Sorted([i \in DOMAIN rows |-> rows[i].date], TRUE)}

\* lines 31-33, one column
Repair(cols, rows, c) ==
  IF c \in cols /\ Exceeds(AbsMax(rows, c))
    THEN [i \in DOMAIN rows |-> [rows[i] EXCEPT ![c] = Div10(@)]]
    ELSE rows

Returned(cols, rows) == [exception |-> "", df |-> [cols |-> cols, rows |-> rows]]
Raised(e) == [exception |-> e, df |-> NoDaily]

\* dashboard.py lines 27-35: what load_daily can return or raise
load_daily(c) ==
  IF ~({"TMAX", "TMIN"} \subseteq c.cols)
    THEN {Raised("KeyError")}
    ELSE {Returned(c.cols \cup {"TMEAN"},
                   LET fixed == Repair(c.cols, Repair(c.cols, s, "TMAX"), "TMIN")
                   IN  [i \in DOMAIN fixed |->
                          [fixed[i] EXCEPT !.TMEAN = RowMean(fixed[i])]]) :
          s \in sort_values_date(c.rows)}

\* dashboard_part2.py lines 22-27
load_daily_small(c) ==
  IF "TMEAN" \notin c.cols /\ {"TMAX", "TMIN"} \subseteq c.cols
    THEN LET big == Exceeds(MaxOf({AbsMax(c.rows, "TMAX"), AbsMax(c.rows, "TMIN")}))
         IN  {Returned(c.cols \cup {"TMEAN"},
                [i \in DOMAIN c.rows |->
                   [c.rows[i] EXCEPT !.TMEAN =
                      IF big THEN Div10(RowMean(c.rows[i])) ELSE RowMean(c.rows[i])]])}
    ELSE {Returned(c.cols, c.rows)}

\* A daily loader applied to a daily CSV
InitDaily ==
  /\ app = "loader" /\ pc \in {"load_daily", "load_daily_small"} /\ page = ""
  /\ fs = [s \in Sources |-> "ok"]
  /\ files = <<>> /\ chunksize = CHUNKSIZE /\ table = <<>>
  /\ csv \in DailyCsvs(MaxDays)
  /\ unit \in {"whole", "tenths"}
  /\ RunIdle

Apply(name, outs) ==
  /\ app = "loader" /\ pc = name
  /\ calls' = calls \cup {name}
  /\ \E out \in outs :
       /\ df' = out.df
       /\ exception' = IF out.exception = "" THEN NoException ELSE Exc(out.exception, name)
       /\ pc' = IF out.exception = "" THEN "returned" ELSE "crashed"
  /\ UNCHANGED <<pageVars, topVars, show_top_n, rendered>>

ApplyLoadDaily == Apply("load_daily", load_daily(csv))

ApplyLoadDailySmall == Apply("load_daily_small", load_daily_small(csv))

NextDaily == ApplyLoadDaily \/ ApplyLoadDailySmall

SpecDaily == InitDaily /\ [][NextDaily]_vars

-----------------------------------------------------------------------------
(* The page scripts *)

\* dashboard.py lines 83-100
Col2 ==
  /\ app = "dashboard" /\ pc = "col2"
  /\ IF ~Exists("DAILY_FILE")
       THEN /\ rendered' = rendered \cup {<<"info", "DAILY_FILE">>}
            /\ pc' = "kepler"
            /\ UNCHANGED <<calls, df, exception>>
       ELSE /\ calls' = calls \cup {"load_daily"}
            /\ IF fs["DAILY_FILE"] # "ok"
                 THEN /\ Raise(IF fs["DAILY_FILE"] = "missing" THEN "FileNotFoundError"
                               ELSE "PermissionError", "DAILY_FILE")
                      /\ UNCHANGED <<df, rendered>>
                 ELSE \E out \in load_daily(csv) :
                        IF out.exception # ""
                          THEN /\ Raise(out.exception, "DAILY_FILE")
                               /\ UNCHANGED <<df, rendered>>
                          ELSE /\ df' = out.df
                               /\ rendered' = rendered \cup {<<"chart", "DAILY_FILE">>}
                               /\ pc' = "kepler"
                               /\ UNCHANGED exception
  /\ UNCHANGED <<pageVars, topVars, show_top_n>>

\* dashboard.py lines 108-115, dashboard_part2.py lines 137-142; then is where
\* the script goes next
KeplerBlock(then) ==
  /\ IF ~Exists("KEPLER_HTML")
       THEN /\ rendered' = rendered \cup {<<"info", "KEPLER_HTML">>}
            /\ pc' = then
            /\ UNCHANGED exception
       ELSE IF fs["KEPLER_HTML"] # "ok"
              THEN /\ Raise(IF fs["KEPLER_HTML"] = "missing" THEN "FileNotFoundError"
                            ELSE "PermissionError", "KEPLER_HTML")
                   /\ UNCHANGED rendered
              ELSE /\ rendered' = rendered \cup {<<"chart", "KEPLER_HTML">>}
                   /\ pc' = then
                   /\ UNCHANGED exception
  /\ UNCHANGED <<pageVars, topVars, show_top_n, calls, df>>

Kepler == app = "dashboard" /\ pc = "kepler" /\ KeplerBlock("end")

Pages == {"Intro", "Trips vs Temperature (Dual-Axis)", "Top Start Stations",
          "Origin-Destination Map (Kepler.gl)", "Extra Analysis", "Recommendations"}

Slider2Values == {10 + 5 * i : i \in 0..8}

\* dashboard_part2.py lines 52-64 and 190-280: text only
P2Text ==
  /\ app = "part2" /\ pc = "dispatch"
  /\ page \in {"Intro", "Recommendations"}
  /\ rendered' = rendered \cup {<<"text", page>>}
  /\ pc' = "end"
  /\ UNCHANGED <<pageVars, topVars, show_top_n, calls, df, exception>>

\* dashboard_part2.py lines 71-74 and 156-159: the daily sample is missing, or
\* load_daily_small reads it; needs tells whether the page then reads TMEAN
\* (line 78)
DailySmallBlock(needsTMEAN) ==
  /\ IF ~Exists("DAILY_SMALL")
       THEN /\ rendered' = rendered \cup {<<"info", "DAILY_SMALL">>}
            /\ pc' = "end"
            /\ UNCHANGED <<calls, df, exception>>
       ELSE /\ calls' = calls \cup {"load_daily_small"}
            /\ IF fs["DAILY_SMALL"] # "ok"
                 THEN /\ Raise(IF fs["DAILY_SMALL"] = "missing" THEN "FileNotFoundError"
                               ELSE "PermissionError", "DAILY_SMALL")
                      /\ UNCHANGED <<df, rendered>>
                 ELSE \E out \in load_daily_small(csv) :
                        /\ df' = out.df
                        /\ IF needsTMEAN /\ "TMEAN" \notin out.df.cols
                             THEN /\ Raise("KeyError", "DAILY_SMALL")
                                  /\ UNCHANGED rendered
                             ELSE /\ rendered' = rendered \cup {<<"chart", "DAILY_SMALL">>}
                                  /\ pc' = "end"
                                  /\ UNCHANGED exception
  /\ UNCHANGED <<pageVars, topVars, show_top_n>>

\* dashboard_part2.py lines 69-96
P2Dual ==
  /\ app = "part2" /\ pc = "dispatch"
  /\ page = "Trips vs Temperature (Dual-Axis)"
  /\ DailySmallBlock(TRUE)

\* dashboard_part2.py lines 153-185
P2Extra ==
  /\ app = "part2" /\ pc = "dispatch"
  /\ page = "Extra Analysis"
  /\ DailySmallBlock(FALSE)

\* dashboard_part2.py lines 101-130, with load_stations_small (lines 30-31)
P2Top ==
  /\ app = "part2" /\ pc = "dispatch"
  /\ page = "Top Start Stations"
  /\ show_top_n' \in Slider2Values
  /\ IF ~Exists("STATIONS_SMALL")
       THEN /\ rendered' = rendered \cup {<<"info", "STATIONS_SMALL">>}
            /\ pc' = "end"
            /\ UNCHANGED <<calls, stations, top_stations, exception>>
       ELSE /\ calls' = calls \cup {"load_stations_small"}
            /\ IF fs["STATIONS_SMALL"] # "ok"
                 THEN /\ Raise(IF fs["STATIONS_SMALL"] = "missing" THEN "FileNotFoundError"
                               ELSE "PermissionError", "STATIONS_SMALL")
                      /\ UNCHANGED <<stations, top_stations, rendered>>
                 ELSE /\ stations' = table
                      /\ top_stations' = head(table, show_top_n')
                      /\ rendered' = rendered \cup {<<"chart", "STATIONS_SMALL">>}
                      /\ pc' = "end"
                      /\ UNCHANGED exception
  /\ UNCHANGED <<pageVars, df, fi, pos, nchunks, counts, ranking>>

\* dashboard_part2.py lines 135-148
P2Kepler ==
  /\ app = "part2" /\ pc = "dispatch"
  /\ page = "Origin-Destination Map (Kepler.gl)"
  /\ KeplerBlock("end")

\* One sample row per set of columns
PageCsvs ==
  {[cols |-> cols,
    rows |-> <<[idx |-> 1, date |-> 1,
                TMAX |-> IF "TMAX" \in cols THEN Cell(210) ELSE NaN,
                TMIN |-> IF "TMIN" \in cols THEN Cell(50) ELSE NaN,
                TMEAN |-> IF "TMEAN" \in cols THEN Cell(7) ELSE NaN]>>] :
   cols \in SUBSET TempCols}

PageTables == {<<>>, << <<1, 5>>, <<2, 3>> >>}

\* The file system a page run finds: the locations the script consults are
\* in any status, and a readable one holds a small sample
InitFs(consulted, daily) ==
  /\ fs \in [Sources -> Status]
  /\ \A s \in Sources \ consulted : fs[s] = "missing"
  /\ IF fs["DATA_DIR"] = "ok" THEN files \in Dirs(1, 1) ELSE files = <<>>
  /\ IF fs[daily] = "ok" THEN csv \in PageCsvs ELSE csv = NoDaily
  /\ IF fs["STATIONS_SMALL"] = "ok" THEN table \in PageTables ELSE table = <<>>
  /\ chunksize = 1

Init ==
  /\ unit = "whole"
  /\ RunIdle
  /\ \/ /\ app = "dashboard" /\ pc = "slider" /\ page = ""
        /\ InitFs({"DATA_DIR", "DAILY_FILE", "KEPLER_HTML"}, "DAILY_FILE")
     \/ /\ app = "part2" /\ pc = "dispatch" /\ page \in Pages
        /\ InitFs({"DAILY_SMALL", "STATIONS_SMALL", "KEPLER_HTML"}, "DAILY_SMALL")

Next ==
  \/ Slider \/ Col1 \/ NextFile \/ ReadChunk \/ Finish \/ ShowTop \/ Col2 \/ Kepler
  \/ P2Text \/ P2Dual \/ P2Top \/ P2Kepler \/ P2Extra

Spec == Init /\ [][Next]_vars

-----------------------------------------------------------------------------
(* Station ranking: compute_top20_stations and the Top-N control *)

RECURSIVE RowsOfFiles(_)
RowsOfFiles(fl) == IF fl = <<>> THEN <<>> ELSE Head(fl).rows \o RowsOfFiles(Tail(fl))

\* One tally over rows: every name that is not null, with its occurrences
Tally(rows) == [k \in Range(rows) \ {Null} |-> CountOf(rows, k)]

\* The loop of lines 42-46 has run to its end
TallyDone ==
  /\ "compute_top20_stations" \in calls
  /\ pc \notin {"open", "chunk", "crashed"}

\* compute_top20_stations has returned
Computed == TallyDone /\ pc # "sort"

PosIn(d, k) == CHOOSE i \in DOMAIN d : d[i][1] = k

\* C1: once every chunk of every file has been merged, the running tally
\* maps each non-null station name to its number of occurrences in the
\* concatenation of all rows of all files, and holds no other key, whatever
\* the chunk size and the order of the files.
C1_TallyEqualsSingleTally ==
  TallyDone => AsFun(counts) = Tally(RowsOfFiles(files))

\* C1 witness: a tally finished over two files read in one-row chunks, with a
\* null name among the rows and a station counted across chunks.
C1_Witness ==
  /\ TallyDone
  /\ Len(files) = 2 /\ chunksize = 1 /\ nchunks = 3
  /\ Null \in Range(RowsOfFiles(files))
  /\ \E k \in Keys(counts) : Get(counts, k, 0) = 2 /\ k \in Range(files[2].rows)

\* C7: the ranking charted for K is the prefix of length min(K, number of
\* distinct stations) of the full count-descending ranking.
C7_TopKIsPrefixOfFullRanking ==
  (Computed /\ pc # "show") =>
     top_stations = SubSeq(ranking, 1, Min(show_top_n, Cardinality(Keys(counts))))

\* C8 as claimed: the returned ranking is sorted by count descending, and
\* stations with equal counts keep the order in which they entered the
\* running tally.
C8_SortedWithTiesFirstSeen ==
  Computed =>
    \A i, j \in DOMAIN stations :
      i < j => /\ stations[i][2] >= stations[j][2]
               /\ stations[i][2] = stations[j][2] =>
                    PosIn(counts, stations[i][1]) < PosIn(counts, stations[j][1])

\* C8 as amended: the returned ranking is sorted by count descending and
\* lists each of its stations once, with its tallied count; it has
\* min(20, number of stations) entries.  (The order among equal counts is
\* not fixed.)
C8_SortedDescending ==
  Computed =>
    /\ Len(stations) = Min(HEAD, Len(counts))
    /\ \A i \in DOMAIN stations :
         /\ stations[i][1] \in Keys(counts)
         /\ stations[i][2] = Get(counts, stations[i][1], 0)
    /\ \A i, j \in DOMAIN stations :
         i < j => /\ stations[i][2] >= stations[j][2]
                  /\ stations[i][1] # stations[j][1]

\* C8 witness: a returned ranking in which two stations with equal counts
\* stand in the reverse of the order in which they entered the tally.
C8_Witness ==
  /\ Computed
  /\ \E i, j \in DOMAIN stations :
       /\ i < j /\ stations[i][2] = stations[j][2]
       /\ PosIn(counts, stations[i][1]) > PosIn(counts, stations[j][1])

\* C10 as claimed: when the schema mismatch is reported, no chunk of any
\* file has been tallied.
C10_NothingTalliedAtMismatch ==
  exception.type = "ValueError" => nchunks = 0 /\ counts = <<>>

\* C10 as amended: a file without the column is never read: opening it
\* raises, before any of its chunks or of a later file's is tallied.  At
\* that moment the files ordered before it have been tallied in full, and no
\* ranking has been produced.
C10_MismatchRaisedOnOpen ==
  /\ pc = "chunk" => files[fi].kind = "ok"
  /\ exception.type = "ValueError" =>
       /\ files[fi].kind = "nocol"
       /\ AsFun(counts) = Tally(RowsOfFiles(SubSeq(files, 1, fi - 1)))
       /\ ranking = <<>> /\ stations = <<>> /\ top_stations = <<>>
       /\ <<"chart", "DATA_DIR">> \notin rendered

\* C10 witness: the mismatch is raised at the second file, after the first
\* has been tallied.
C10_Witness ==
  /\ exception.type = "ValueError"
  /\ fi = 2 /\ nchunks >= 1 /\ counts # <<>>

-----------------------------------------------------------------------------
(* Daily series: load_daily and load_daily_small *)

Loaded == pc = "returned"

\* The row of the CSV an output row comes from
In(r) == csv.rows[r.idx]

OutRows == Range(df.rows)

\* C2: for each of TMAX and TMIN on its own, if the column's largest
\* magnitude in the CSV exceeds 200 every output value is the input divided
\* by 10, and otherwise every output value is the input.
C2_UnitRepairPerColumn ==
  Loaded =>
    \A c \in {"TMAX", "TMIN"} \cap csv.cols : \A r \in OutRows :
      r[c] = IF Exceeds(AbsMax(csv.rows, c)) THEN Div10(In(r)[c]) ELSE In(r)[c]

\* C3: when the CSV records TMAX and TMIN in tenths of a degree, the output
\* tmax and tmin are the inputs divided by 10, and tmean (where not supplied
\* and both are present) is the mean of those.
C3_AlwaysWholeDegrees ==
  (Loaded /\ unit = "tenths" /\ {"TMAX", "TMIN"} \subseteq csv.cols) =>
    \A r \in OutRows :
      /\ r.TMAX = Div10(In(r).TMAX)
      /\ r.TMIN = Div10(In(r).TMIN)
      /\ ("TMEAN" \notin csv.cols /\ ~IsNaN(r.TMAX) /\ ~IsNaN(r.TMIN)) =>
           r.TMEAN = <<(Div10(In(r).TMAX)[1] + Div10(In(r).TMIN)[1]) \div 2>>

\* C4: with no tmean supplied, the load returns a series (also when a
\* temperature column is missing from the CSV), in which tmean is the mean
\* of the row's tmax and tmin where both are present and is absent where
\* either is absent.
C4_MeanOfBothElseAbsent ==
  ("TMEAN" \notin csv.cols /\ pc \in {"returned", "crashed"}) =>
    /\ Loaded
    /\ \A r \in OutRows :
         IF IsNaN(r.TMAX) \/ IsNaN(r.TMIN)
           THEN IsNaN(r.TMEAN)
           ELSE r.TMEAN = <<(r.TMAX[1] + r.TMIN[1]) \div 2>>

\* C5: a tmean supplied by the CSV is returned unchanged.
C5_SuppliedMeanUnchanged ==
  (Loaded /\ "TMEAN" \in csv.cols) =>
    \A r \in OutRows : r.TMEAN = In(r).TMEAN

\* C6: the returned series is non-decreasing by date and is a permutation of
\* the rows of the CSV.
C6_AscendingByDate ==
  Loaded =>
    /\ \A i, j \in DOMAIN df.rows : i < j => df.rows[i].date <= df.rows[j].date
    /\ Len(df.rows) = Len(csv.rows)
    /\ {r.idx : r \in OutRows} = DOMAIN csv.rows
    /\ \A r \in OutRows : r.date = In(r).date

-----------------------------------------------------------------------------
(* Missing and unreadable sources *)

Required == {"DATA_DIR", "DAILY_FILE", "DAILY_SMALL", "STATIONS_SMALL"}

LoaderOf(s) ==
  CASE s = "DATA_DIR" -> "compute_top20_stations"
    [] s = "DAILY_FILE" -> "load_daily"
    [] s = "DAILY_SMALL" -> "load_daily_small"
    [] s = "STATIONS_SMALL" -> "load_stations_small"

\* The section of the page that consults s has run, to its end or to an
\* exception
Reached(s) ==
  \/ <<"info", s>> \in rendered
  \/ <<"chart", s>> \in rendered
  \/ exception.at = s

Degraded(s) ==
  /\ <<"info", s>> \in rendered
  /\ <<"chart", s>> \notin rendered
  /\ LoaderOf(s) \notin calls
  /\ exception.at # s

\* C9 as claimed: a required location that is missing or cannot be opened
\* gets a notice; its loader is not run and no exception escapes.
C9_UnavailableSourceIsDegraded ==
  \A s \in Required : (fs[s] # "ok" /\ Reached(s)) => Degraded(s)

\* C9 as amended: a required location that does not exist gets a notice; its
\* loader is not run, no exception escapes from its section, and the script
\* goes on after it.
C9_MissingSourceIsDegraded ==
  \A s \in Required : (fs[s] = "missing" /\ Reached(s)) => Degraded(s)

\* C9 witness: dashboard.py ran to its end with the trip folder missing: the
\* notice stands in column 1 and the daily chart was still drawn.
C9_Witness ==
  /\ app = "dashboard" /\ pc = "end"
  /\ fs["DATA_DIR"] = "missing"
  /\ Degraded("DATA_DIR")
  /\ <<"chart", "DAILY_FILE">> \in rendered

====
